---- MODULE Spec2Model ----
(***************************************************************************)
(* Stream lifecycle and access-control engine of cc.core.server.            *)
(*                                                                          *)
(* The model follows server/stream.go (NewStream, FinishStream, StreamKey,  *)
(* PatchStream, NewStreamHostToken, listenStreamInterruptEvent, killStream, *)
(* connectToStream), the standalone launcher (stream/standalone.go), the    *)
(* participant admission code                                               *)
(* (JoinParticipant, DecideParticipantJoin), Server.Stop, the stream gate   *)
(* (StreamAuthMiddleware) and the request validation of the HTTP handlers.  *)
(*                                                                          *)
(* Every Go function that touches the registry (sync.Map), the bolt store   *)
(* or the worker from several goroutines is split at its accesses to shared *)
(* state, so that the interleavings the Go scheduler allows are the         *)
(* interleavings of the model.  Store failures (I/O) are a nondeterministic *)
(* input of every step that writes the store.                               *)
(***************************************************************************)
EXTENDS Integers, Sequences, FiniteSets, TLC

\* ------------------------------------------------------------------ bounds
\* sequential FinishStream calls issued by the finishing client, per stream
MaxFinishCalls == 2
\* PatchStream calls per stream
MaxPatches == 1
\* JoinParticipant calls (each call draws a fresh participant uuid)
MaxJoins == 2
\* DecideParticipantJoin calls
MaxDecides == 2
\* times the server process is started again on the data folder it left
MaxRestarts == 1
\* Stop calls a client of the launcher makes on one launcher
MaxStops == 2
\* NewStreamHostToken calls of the operators
MaxMints == 2
\* rows in the stream store that StreamList pages through
MaxListRows == 3
\* largest page size the admin client asks for
MaxPageSize == 2
\* the rows of the store a sorted listing is asked of
MaxSortRows == 7
\* StreamParticipants calls made on the server
MaxParticipantLists == 2

\* ------------------------------------------------------------ value domains
\* stream uuids (uuid.New() never repeats: every id is created at most once)
Streams == {"s1", "s2"}
\* participant uuids are the ids of the join calls that drew them
Calls == 1..MaxJoins
\* DecideParticipantJoin calls of the host
Deciders == 1..MaxDecides
\* goroutines that call killStream
Killers == {"finish", "stop", "watcher", "create"}

JoinPolicyAuto == "auto"
JoinPolicyByCode == "by_code"
JoinPolicyHostResolve == "host_resolve"
\* the policies the validation lets through, and one it does not
JoinPolicies == {JoinPolicyAuto, JoinPolicyByCode, JoinPolicyHostResolve}
\* join codes: empty, two that match ^[0-9]{6}$, one that does not
DigitCodes == {"111111", "222222"}
Codes == {""} \cup DigitCodes \cup {"abc"}

StreamStatusRunning == "running"
StreamStatusFinished == "finished"

\* no row stored under the key (Bucket.Load returns nil)
NoRow == [status |-> "absent", finishedAt |-> 0, policy |-> "", code |-> "",
          name |-> "", host |-> "", subject |-> "", hostUUID |-> 0]

\* subjects of server tokens; a request that carries no server token has the
\* empty subject
OperatorSubject == "op1"
Subjects == {"", OperatorSubject, "op2"}

\* the name and the host username/avatar of a create request, and the ones a
\* patch request can carry ("" in a patch request: the field is not provided)
CreateName == "lecture"
CreateHost == "alice"
PatchName == "seminar"
PatchHost == "bobby"
\* a patch request that provides nothing
NoPatch == [name |-> "", join |-> FALSE, policy |-> "", code |-> "", host |-> ""]

VARIABLES
    reg,        \* s.streams: stream uuid -> entry present
    row,        \* streamStorage: stream uuid -> stored streamInfo
    worker,     \* worker process of the launcher: none/running/killed/crashed/exited0
    intr,       \* launcher's interrupt channel: none/pending (sender blocked)/delivered
    rpc,        \* rpc client of the registry entry: none/open/closed
    teardowns,  \* number of killStream invocations that ran the teardown branch
    cpc,        \* NewStream: position of the call for each stream uuid
    ccfg,       \* NewStream: the validated configuration of the call
    wpc,        \* listenStreamInterruptEvent goroutine
    kpc,        \* killStream: position of every caller's invocation
    fpc,        \* FinishStream client: idle or inside killStream
    fcalls,     \* results of the client's FinishStream calls, in order
    spc,        \* Server.Stop: idle / range / done
    svisit,     \* Server.Stop: keys the Range has visited
    ppc,        \* PatchStream: idle / loaded
    pcnt,       \* PatchStream calls made
    pcfg,       \* PatchStream: configuration of the call in flight
    pinfo,      \* PatchStream: the row the call decoded
    clock,      \* time.Now() of the last write of finished-at
    jst,        \* JoinParticipant calls
    pending,    \* pendingParticipants of each registry entry
    plist,      \* participantStorage: stream uuid -> stored participant list
    issued,     \* stream tokens minted so far
    dst,        \* DecideParticipantJoin calls
    gate,       \* the last request the stream gate served, with its outcome
    iofail,     \* some write to a store has failed (I/O error)
    notified,   \* participants for which addNewParticipant was dispatched
    boot,       \* times the server process was started again on the same data folder
    lst,        \* an admin client paging through StreamList
    dial,       \* connectToStream: the dial outcomes of the last call and what it did
    stops,      \* results of the Stop calls made on each stream's launcher, in order
    kerr,       \* killStream: Close or Stop returned an error in the caller's last invocation
    mint,       \* NewStreamHostToken call of an operator
    sp,         \* StreamParticipants call: its position and the list it builds
    pp          \* PatchParticipant call of a participant and what it returned

vars == <<reg, row, worker, intr, rpc, teardowns, cpc, ccfg, wpc, kpc, fpc, fcalls,
          spc, svisit, ppc, pcnt, pcfg, pinfo, clock, jst, pending, plist, issued,
          dst, gate, iofail, notified, boot, lst, dial, stops, kerr, mint, sp, pp>>

lifeVars == <<reg, row, worker, intr, rpc, teardowns, cpc, ccfg, wpc, kpc, fpc, fcalls,
              spc, svisit, ppc, pcnt, pcfg, pinfo, clock>>
joinVars == <<jst, pending, plist, issued, dst, notified>>
auxVars == <<dial, stops, kerr, mint>>
partVars == <<sp, pp>>

\* ------------------------------------------------------------------- Init
\* the state after server.New: empty registry, empty stores, no call in flight
IdleJoin == [pc |-> "idle", stream |-> "s1", policy |-> "", code |-> "", supplied |-> "",
             allowed |-> FALSE, cancelled |-> FALSE, result |-> "none", list |-> <<>>]
NoDecide == [pc |-> "idle", stream |-> "s1", target |-> 0, val |-> FALSE, result |-> "none"]
NoToken == [streamUUID |-> "", UUID |-> 0, host |-> FALSE, key |-> "", intact |-> FALSE]
NoGate == [path |-> "", tok |-> NoToken, hostSpecific |-> FALSE, result |-> "none"]
\* no StreamList call made yet
NoList == [pc |-> "idle"]
\* connectToStream not called yet
NoDial == [outcomes |-> <<>>, err |-> FALSE, events |-> <<>>]
\* no NewStreamHostToken call in flight, none made
NoMint == [pc |-> "idle", stream |-> "s1", subject |-> "", info |-> NoRow,
           result |-> "none", tok |-> NoToken, cnt |-> 0]

\* StreamParticipants not called yet
NoParticipants == [pc |-> "idle", stream |-> "s1", calls |-> 0, list |-> <<>>,
                   result |-> "none", patched |-> FALSE]
\* PatchParticipant not called yet
NoParticipantPatch == [pc |-> "idle", stream |-> "s1", uuid |-> 0, result |-> "none",
                       Name |-> "", AvatarID |-> ""]

\* everything but the admin client's paging
InitServer ==
    /\ reg = [s \in Streams |-> FALSE]
    /\ row = [s \in Streams |-> NoRow]
    /\ worker = [s \in Streams |-> "none"]
    /\ intr = [s \in Streams |-> "none"]
    /\ rpc = [s \in Streams |-> "none"]
    /\ teardowns = [s \in Streams |-> 0]
    /\ cpc = [s \in Streams |-> "idle"]
    /\ ccfg = [s \in Streams |-> [policy |-> "", code |-> "", subject |-> "", hostUUID |-> 0]]
    /\ wpc = [s \in Streams |-> "none"]
    /\ kpc = [s \in Streams |-> [k \in Killers |-> "idle"]]
    /\ fpc = [s \in Streams |-> "idle"]
    /\ fcalls = [s \in Streams |-> <<>>]
    /\ spc = "idle"
    /\ svisit = {}
    /\ ppc = [s \in Streams |-> "idle"]
    /\ pcnt = [s \in Streams |-> 0]
    /\ pcfg = [s \in Streams |-> NoPatch]
    /\ pinfo = [s \in Streams |-> NoRow]
    /\ clock = 0
    /\ jst = [c \in Calls |-> IdleJoin]
    /\ pending = [s \in Streams |-> {}]
    /\ plist = [s \in Streams |-> <<>>]
    /\ issued = {}
    /\ dst = [d \in Deciders |-> NoDecide]
    /\ gate = NoGate
    /\ iofail = FALSE
    /\ notified = {}
    /\ boot = 0
    /\ dial = [s \in Streams |-> NoDial]
    /\ stops = [s \in Streams |-> <<>>]
    /\ kerr = [s \in Streams |-> [k \in Killers |-> FALSE]]
    /\ mint = NoMint
    /\ sp = NoParticipants
    /\ pp = NoParticipantPatch

Init == InitServer /\ lst = NoList

\* ------------------------------------------------------------- validation
\* CreateStreamRequest.Validate: join.policy is required and one of the three
\* policies; under by_code the code is required and matches ^[0-9]{6}$
ValidateCreate(policy, code) ==
    /\ policy \in JoinPolicies
    /\ policy = JoinPolicyByCode => code \in DigitCodes

\* len() of the join codes of the model
CodeLen(code) == IF code = "" THEN 0 ELSE IF code \in DigitCodes THEN 6 ELSE 3

\* PatchStreamRequest.Validate: with a join object, the policy is one of the
\* three or empty (the In rule skips an empty value), and under by_code the
\* code is required and matches ^[0-9]{6}$.  With a host object the rule
\* Length(5, 32) is applied to req.Join.Code (lines 206-209): without a join
\* object that dereferences a nil pointer and the request is aborted; with
\* one, the join code must be empty or 5 to 32 long
ValidatePatch(cfg) ==
    /\ cfg.join =>
            /\ cfg.policy \in JoinPolicies \cup {""}
            /\ cfg.policy = JoinPolicyByCode => cfg.code \in DigitCodes
    /\ cfg.host # "" =>
            /\ cfg.join
            /\ cfg.code = "" \/ CodeLen(cfg.code) \in 5..32

\* the HTTP servers accept requests until Server.Stop shuts them down
Accepting == spc # "done"

\* the stream uuid has left NewStream: in its response, or in a stored row
\* that the admin list shows
Known(s) == row[s] # NoRow \/ cpc[s] = "done"

\* --------------------------------------------------------------- launcher
\* StandaloneStream.Stop: Process.Kill ends a running worker; on a worker
\* that already exited it only returns an error, which the callers log
StandaloneStop(w) == IF w = "running" THEN "killed" ELSE w

\* what StandaloneStream.Stop returns: Process.Kill returns nil for a running
\* process and the error "os: process already finished" for a process that
\* Wait has reaped (the goroutine of Start is in Wait from the start on)
StandaloneStopResult(w) == IF w = "running" THEN "ok" ELSE "err"

\* the goroutine of StandaloneStream.Start that waits for the process: Wait
\* returns an error for a killed or crashed worker and the goroutine sends it
\* on the interrupt channel; for exit status 0 it sends nothing
InterruptAfterExit(w, i) ==
    IF w \in {"killed", "crashed"} /\ i = "none" THEN "pending" ELSE i

\* the worker process exits on its own: with status 0 (clean) or not
WorkerExit(s, clean) ==
    /\ worker[s] = "running"
    /\ worker' = [worker EXCEPT ![s] = IF clean THEN "exited0" ELSE "crashed"]
    /\ intr' = [intr EXCEPT ![s] = InterruptAfterExit(worker'[s], intr[s])]
    /\ UNCHANGED <<reg, row, rpc, teardowns, cpc, ccfg, wpc, kpc, fpc, fcalls, spc,
                   svisit, ppc, pcnt, pcfg, pinfo, clock, joinVars, gate, boot, lst, iofail, auxVars, partVars>>

\* the launcher's client calls Stop on a launcher that was started
LauncherStop(s) ==
    /\ worker[s] # "none"
    /\ Len(stops[s]) < MaxStops
    /\ stops' = [stops EXCEPT ![s] = Append(@, StandaloneStopResult(worker[s]))]
    /\ worker' = [worker EXCEPT ![s] = StandaloneStop(worker[s])]
    /\ intr' = [intr EXCEPT ![s] = InterruptAfterExit(worker'[s], intr[s])]
    /\ UNCHANGED <<reg, row, rpc, teardowns, cpc, ccfg, wpc, kpc, fpc, fcalls, spc,
                   svisit, ppc, pcnt, pcfg, pinfo, clock, joinVars, gate, boot, lst, iofail,
                   dial, kerr, mint, partVars>>

\* ---------------------------------------------------------------- tokens
\* generateStreamAccessToken: claims streamUUID, UUID, host, signed RS256 by
\* the private key; the key of a stream is identified by the stream's uuid,
\* intact says that the claims are the ones that were signed
generateStreamAccessToken(streamUUID, participantUUID, isHost, privateKey) ==
    [streamUUID |-> streamUUID, UUID |-> participantUUID, host |-> isHost,
     key |-> privateKey, intact |-> TRUE]

\* the host uuid NewStream draws for a stream (participant uuids are positive)
HostUUID(s) == IF s = "s1" THEN -1 ELSE -2

\* ----------------------------------------------------------- NewStream
\* startStreamAndConnect: Start, then connectToStream; when the dial fails
\* the deferred function stops the worker that was started
startStreamAndConnect(startOk, dialOk) ==
    IF ~startOk THEN [err |-> TRUE, worker |-> "none", rpc |-> "none", stops |-> <<>>]
    ELSE IF ~dialOk THEN [err |-> TRUE, worker |-> StandaloneStop("running"), rpc |-> "none",
                          stops |-> <<StandaloneStopResult("running")>>]
    ELSE [err |-> FALSE, worker |-> "running", rpc |-> "open", stops |-> <<>>]

\* attempts of connectToStream at its only call site (line 357)
defaultConnectToStreamRetryCount == 3

\* the loop of connectToStream from iteration i on: dial; return the client
\* of a dial that succeeds; after one that fails log it and, under the
\* condition i != tryCount, sleep defaultConnectToStreamRetryTimeout; the
\* timeout error after tryCount iterations.  outcomes[i+1] says whether the
\* dial of iteration i succeeds, events is what the call has done so far
RECURSIVE DialLoop(_, _, _, _)
DialLoop(outcomes, tryCount, i, events) ==
    IF ~(i < tryCount) THEN [err |-> TRUE, events |-> events]
    ELSE IF outcomes[i + 1] THEN [err |-> FALSE, events |-> Append(events, "dial")]
    ELSE DialLoop(outcomes, tryCount, i + 1,
                  events \o <<"dial">> \o (IF i # tryCount THEN <<"sleep">> ELSE <<>>))

connectToStream(outcomes, tryCount) == DialLoop(outcomes, tryCount, 0, <<>>)

\* startStreamAndConnect on a launcher of its own: Start, connectToStream
\* with the dial outcomes the network gives, the deferred Stop after a failure
LaunchStartAndConnect(s, startOk, outcomes) ==
    /\ worker[s] = "none"
    /\ dial[s].outcomes = <<>>
    /\ LET c == connectToStream(outcomes, defaultConnectToStreamRetryCount)
           r == startStreamAndConnect(startOk, ~c.err)
       IN /\ worker' = [worker EXCEPT ![s] = r.worker]
          /\ intr' = [intr EXCEPT ![s] = InterruptAfterExit(r.worker, intr[s])]
          /\ rpc' = [rpc EXCEPT ![s] = r.rpc]
          /\ stops' = [stops EXCEPT ![s] = @ \o r.stops]
          /\ dial' = [dial EXCEPT ![s] = IF startOk
                                         THEN [outcomes |-> outcomes, err |-> c.err,
                                               events |-> c.events]
                                         ELSE @]
    /\ UNCHANGED <<reg, row, teardowns, cpc, ccfg, wpc, kpc, fpc, fcalls, spc, svisit, ppc,
                   pcnt, pcfg, pinfo, clock, joinVars, gate, boot, lst, iofail, kerr, mint, partVars>>

\* createStream handler and NewStream up to line 96: the request is
\* validated, the worker is started and dialled, the watcher goroutine is
\* spawned on the interrupt channel
CreateStart(s, subject, policy, code, startOk, dialOk) ==
    /\ Accepting
    /\ cpc[s] = "idle"
    /\ ValidateCreate(policy, code)
    /\ LET r == startStreamAndConnect(startOk, dialOk) IN
        /\ worker' = [worker EXCEPT ![s] = r.worker]
        /\ intr' = [intr EXCEPT ![s] = InterruptAfterExit(r.worker, intr[s])]
        /\ rpc' = [rpc EXCEPT ![s] = r.rpc]
        /\ cpc' = [cpc EXCEPT ![s] = IF r.err THEN "failed" ELSE "started"]
        /\ wpc' = [wpc EXCEPT ![s] = IF r.err THEN "none" ELSE "listening"]
        /\ ccfg' = [ccfg EXCEPT ![s] = IF r.err THEN ccfg[s]
                                       ELSE [policy |-> policy, code |-> code,
                                             subject |-> subject,
                                             hostUUID |-> HostUUID(s)]]
        /\ stops' = [stops EXCEPT ![s] = @ \o r.stops]
    /\ UNCHANGED <<reg, row, teardowns, kpc, fpc, fcalls, spc, svisit, ppc, pcnt, pcfg,
                   pinfo, clock, joinVars, gate, boot, lst, iofail, dial, kerr, mint, partVars>>

\* the row NewStream builds (lines 99-119)
NewRow(cfg) == [status |-> StreamStatusRunning, finishedAt |-> 0,
                policy |-> cfg.policy, code |-> cfg.code,
                name |-> CreateName, host |-> CreateHost,
                subject |-> cfg.subject, hostUUID |-> cfg.hostUUID]

\* NewStream lines 120-123: store the row; when the store fails, killStream
\* is called for the new uuid and the error is returned
CreateStore(s, storeOk) ==
    /\ cpc[s] = "started"
    /\ IF storeOk
       THEN /\ row' = [row EXCEPT ![s] = NewRow(ccfg[s])]
            /\ cpc' = [cpc EXCEPT ![s] = "stored"]
            /\ kpc' = kpc
       ELSE /\ row' = row
            /\ cpc' = [cpc EXCEPT ![s] = "killing"]
            /\ kpc' = [kpc EXCEPT ![s]["create"] = "start"]
    /\ UNCHANGED <<reg, worker, intr, rpc, teardowns, ccfg, wpc, fpc, fcalls, spc, svisit,
                   ppc, pcnt, pcfg, pinfo, clock, joinVars, gate, boot, lst, auxVars, partVars>>
    /\ iofail' = (iofail \/ ~storeOk)

\* NewStream lines 125-132: insert the registry entry (rpc client, a new
\* pending map, the keys, the launcher) and return the host token
CreateInsert(s) ==
    /\ cpc[s] = "stored"
    /\ reg' = [reg EXCEPT ![s] = TRUE]
    /\ cpc' = [cpc EXCEPT ![s] = "done"]
    /\ issued' = issued \cup {generateStreamAccessToken(s, HostUUID(s), TRUE, s)}
    /\ UNCHANGED <<row, worker, intr, rpc, teardowns, ccfg, wpc, kpc, fpc, fcalls, spc,
                   svisit, ppc, pcnt, pcfg, pinfo, clock, jst, pending, plist, notified, dst, gate, boot, lst, iofail, auxVars, partVars>>

\* ------------------------------------------------- NewStreamHostToken
\* a check that only wants the stored subject to be there
SubjectVerified_AnyStored(stored, subject) == stored # ""

\* line 236: the stored subject is non-empty and is the caller's subject
SubjectVerified(stored, subject) == stored # "" /\ stored = subject

\* newAuthToken handler and NewStreamHostToken line 224: the subject of the
\* caller's server token is taken from the request context, the row of the
\* stream is loaded
MintLoad(s, subject) ==
    /\ Accepting
    /\ mint.pc = "idle"
    /\ mint.cnt < MaxMints
    /\ mint' = [pc |-> "loaded", stream |-> s, subject |-> subject, info |-> row[s],
                result |-> "none", tok |-> NoToken, cnt |-> mint.cnt + 1]
    /\ UNCHANGED <<lifeVars, joinVars, gate, boot, lst, iofail, dial, stops, kerr, partVars>>

\* lines 225-249: load the registry entry; not-found error without it or
\* without a row; subject error unless the row's subject is verified; else a
\* host token for the row's host uuid, signed with the entry's private key
MintCheck ==
    /\ mint.pc = "loaded"
    /\ LET s == mint.stream
           result == IF ~reg[s] \/ mint.info = NoRow THEN "notfound"
                     ELSE IF ~SubjectVerified(mint.info.subject, mint.subject)
                          THEN "badsubject"
                     ELSE "token"
           tok == generateStreamAccessToken(s, mint.info.hostUUID, TRUE, s)
       IN /\ mint' = [mint EXCEPT !.pc = "idle", !.info = NoRow, !.result = result,
                                  !.tok = IF result = "token" THEN tok ELSE NoToken]
          /\ issued' = IF result = "token" THEN issued \cup {tok} ELSE issued
    /\ UNCHANGED <<lifeVars, jst, pending, plist, dst, notified, gate, boot, lst, iofail,
                   dial, stops, kerr, partVars>>

\* ----------------------------------------------------------- killStream
\* line 284: Load of the registry entry decides whether the teardown runs
KillLoad(s, k) ==
    /\ kpc[s][k] = "start"
    /\ kpc' = [kpc EXCEPT ![s][k] = IF reg[s] THEN "loaded" ELSE "row"]
    /\ kerr' = [kerr EXCEPT ![s][k] = FALSE]
    /\ UNCHANGED <<reg, row, worker, intr, rpc, teardowns, cpc, ccfg, wpc, fpc, fcalls,
                   spc, svisit, ppc, pcnt, pcfg, pinfo, clock, joinVars, gate, boot, lst, iofail,
                   dial, stops, mint, partVars>>

\* rpc.Client.Close returns ErrShutdown for a client that was closed before
RpcCloseErr(r) == r = "closed"

\* a killStream that returns at the first error of Close or Stop
TeardownGoesOn_ReturnOnError(closeErr, stopErr) == ~closeErr /\ ~stopErr

\* lines 285-292: an error of Close or of Stop is logged, nothing more
TeardownGoesOn(closeErr, stopErr) == TRUE

\* lines 285-294: close the rpc client, stop the worker, delete the entry
KillTeardown(s, k) ==
    /\ kpc[s][k] = "loaded"
    /\ rpc' = [rpc EXCEPT ![s] = "closed"]
    /\ worker' = [worker EXCEPT ![s] = StandaloneStop(worker[s])]
    /\ intr' = [intr EXCEPT ![s] = InterruptAfterExit(worker'[s], intr[s])]
    /\ stops' = [stops EXCEPT ![s] = Append(@, StandaloneStopResult(worker[s]))]
    /\ teardowns' = [teardowns EXCEPT ![s] = @ + 1]
    /\ LET closeErr == RpcCloseErr(rpc[s])
           stopErr == StandaloneStopResult(worker[s]) = "err"
       IN /\ kerr' = [kerr EXCEPT ![s][k] = closeErr \/ stopErr]
          /\ IF TeardownGoesOn(closeErr, stopErr)
             THEN /\ reg' = [reg EXCEPT ![s] = FALSE]
                  /\ kpc' = [kpc EXCEPT ![s][k] = "row"]
             ELSE /\ reg' = reg
                  /\ kpc' = [kpc EXCEPT ![s][k] = "returned"]
    /\ UNCHANGED <<row, cpc, ccfg, wpc, fpc, fcalls, spc, svisit, ppc, pcnt, pcfg, pinfo,
                   clock, joinVars, gate, boot, lst, iofail, dial, mint, partVars>>

\* lines 297-313: the stored row, when there is one, gets finished-at = now
\* and status = finished; a failed store is only logged
FinishedRow(r, now) == [r EXCEPT !.finishedAt = now, !.status = StreamStatusFinished]

\* the invocation returns to its caller: FinishStream returns nil, the
\* watcher goroutine ends, NewStream returns its store error, the Range of
\* Server.Stop goes on
KillRow(s, k, storeOk) ==
    /\ kpc[s][k] = "row"
    /\ kpc' = [kpc EXCEPT ![s][k] = "idle"]
    /\ IF row[s] # NoRow /\ storeOk
       THEN /\ row' = [row EXCEPT ![s] = FinishedRow(row[s], clock + 1)]
            /\ clock' = clock + 1
       ELSE UNCHANGED <<row, clock, auxVars, partVars>>
    /\ fpc' = IF k = "finish" THEN [fpc EXCEPT ![s] = "idle"] ELSE fpc
    /\ fcalls' = IF k = "finish" THEN [fcalls EXCEPT ![s] = Append(@, "ok")] ELSE fcalls
    /\ wpc' = IF k = "watcher" THEN [wpc EXCEPT ![s] = "done"] ELSE wpc
    /\ cpc' = IF k = "create" THEN [cpc EXCEPT ![s] = "failed"] ELSE cpc
    /\ UNCHANGED <<reg, worker, intr, rpc, teardowns, ccfg, spc, svisit, ppc, pcnt, pcfg,
                   pinfo, joinVars, gate, boot, lst, auxVars, partVars>>
    /\ iofail' = (iofail \/ (row[s] # NoRow /\ ~storeOk))

\* ------------------------------------------- listenStreamInterruptEvent
\* lines 274-280: receive from the interrupt channel, delete the registry
\* entry, then call killStream
WatcherReceive(s) ==
    /\ wpc[s] = "listening"
    /\ intr[s] = "pending"
    /\ intr' = [intr EXCEPT ![s] = "delivered"]
    /\ reg' = [reg EXCEPT ![s] = FALSE]
    /\ wpc' = [wpc EXCEPT ![s] = "killing"]
    /\ kpc' = [kpc EXCEPT ![s]["watcher"] = "start"]
    /\ UNCHANGED <<row, worker, rpc, teardowns, cpc, ccfg, fpc, fcalls, spc, svisit, ppc,
                   pcnt, pcfg, pinfo, clock, joinVars, gate, boot, lst, iofail, auxVars, partVars>>

\* --------------------------------------------------------- FinishStream
\* FinishStream without the Load of lines 159-162: killStream on every call
FinishStream_NoLoad(s) ==
    /\ Accepting
    /\ Known(s)
    /\ fpc[s] = "idle"
    /\ Len(fcalls[s]) < MaxFinishCalls
    /\ fpc' = [fpc EXCEPT ![s] = "killing"]
    /\ kpc' = [kpc EXCEPT ![s]["finish"] = "start"]
    /\ UNCHANGED <<reg, row, worker, intr, rpc, teardowns, cpc, ccfg, wpc, fcalls, spc,
                   svisit, ppc, pcnt, pcfg, pinfo, clock, joinVars, gate, boot, lst, iofail, auxVars, partVars>>

\* lines 158-167: not-found error without a registry entry, else killStream
\* and nil
FinishStream(s) ==
    /\ Accepting
    /\ Known(s)
    /\ fpc[s] = "idle"
    /\ Len(fcalls[s]) < MaxFinishCalls
    /\ IF reg[s]
       THEN /\ fpc' = [fpc EXCEPT ![s] = "killing"]
            /\ kpc' = [kpc EXCEPT ![s]["finish"] = "start"]
            /\ fcalls' = fcalls
       ELSE /\ fcalls' = [fcalls EXCEPT ![s] = Append(@, "notfound")]
            /\ UNCHANGED <<fpc, kpc, auxVars, partVars>>
    /\ UNCHANGED <<reg, row, worker, intr, rpc, teardowns, cpc, ccfg, wpc, spc, svisit,
                   ppc, pcnt, pcfg, pinfo, clock, joinVars, gate, boot, lst, iofail, auxVars, partVars>>

\* ---------------------------------------------------------- Server.Stop
\* Stop begins its Range over s.streams; Range walks the keys the map holds
\* when it starts
StopBegin(S) ==
    /\ spc = "idle"
    /\ spc' = "range"
    /\ svisit' = {s \in Streams : s \notin S \/ ~reg[s]}
    /\ UNCHANGED <<reg, row, worker, intr, rpc, teardowns, cpc, ccfg, wpc, kpc, fpc,
                   fcalls, ppc, pcnt, pcfg, pinfo, clock, joinVars, gate, boot, lst, iofail, auxVars, partVars>>

\* the Range callback: killStream for the next key; Range skips a key whose
\* entry was deleted in the meantime
StopVisit(s) ==
    /\ spc = "range"
    /\ s \notin svisit
    /\ \A t \in Streams : kpc[t]["stop"] = "idle"
    /\ svisit' = svisit \cup {s}
    /\ kpc' = IF reg[s] THEN [kpc EXCEPT ![s]["stop"] = "start"] ELSE kpc
    /\ UNCHANGED <<reg, row, worker, intr, rpc, teardowns, cpc, ccfg, wpc, fpc, fcalls,
                   spc, ppc, pcnt, pcfg, pinfo, clock, joinVars, gate, boot, lst, iofail, auxVars, partVars>>

\* after the Range: shut the two HTTP servers down (no new request is
\* accepted)
StopShutdown ==
    /\ spc = "range"
    /\ svisit = Streams
    /\ \A t \in Streams : kpc[t]["stop"] = "idle"
    /\ spc' = "done"
    /\ UNCHANGED <<reg, row, worker, intr, rpc, teardowns, cpc, ccfg, wpc, kpc, fpc,
                   fcalls, svisit, ppc, pcnt, pcfg, pinfo, clock, joinVars, gate, boot, lst, iofail, auxVars, partVars>>

\* ---------------------------------------------------------- PatchStream
\* patchStream handler and PatchStream lines 183-192: validate the request
\* cfg, load the row and the registry entry, not-found error when either is
\* missing
PatchLoad(s, cfg) ==
    /\ Accepting
    /\ Known(s)
    /\ ppc[s] = "idle"
    /\ pcnt[s] < MaxPatches
    /\ ValidatePatch(cfg)
    /\ IF row[s] = NoRow \/ ~reg[s]
       THEN /\ pcnt' = [pcnt EXCEPT ![s] = @ + 1]
            /\ UNCHANGED <<ppc, pcfg, pinfo, auxVars, partVars>>
       ELSE /\ ppc' = [ppc EXCEPT ![s] = "loaded"]
            /\ pcfg' = [pcfg EXCEPT ![s] = cfg]
            /\ pinfo' = [pinfo EXCEPT ![s] = row[s]]
            /\ pcnt' = pcnt
    /\ UNCHANGED <<reg, row, worker, intr, rpc, teardowns, cpc, ccfg, wpc, kpc, fpc,
                   fcalls, spc, svisit, clock, joinVars, gate, boot, lst, iofail, auxVars, partVars>>

\* patchStream handler lines 21-37: the configuration handed to PatchStream.
\* The host object is copied under the condition cfg.Host != nil, which never
\* holds for the configuration just built, so cfg.Host stays nil
PatchConfig(req) == [req EXCEPT !.host = ""]

\* lines 194-212: overlay the fields the caller provided on the decoded row
PatchOverlay(info, cfg) ==
    LET named == IF cfg.name # "" THEN [info EXCEPT !.name = cfg.name] ELSE info
        joined == IF cfg.join THEN [named EXCEPT !.policy = cfg.policy, !.code = cfg.code]
                  ELSE named
    IN IF cfg.host # "" THEN [joined EXCEPT !.host = cfg.host] ELSE joined

\* lines 214-218: store the row that was decoded and overlaid
PatchStore(s, storeOk) ==
    /\ ppc[s] = "loaded"
    /\ row' = IF storeOk THEN [row EXCEPT ![s] = PatchOverlay(pinfo[s], PatchConfig(pcfg[s]))]
              ELSE row
    /\ ppc' = [ppc EXCEPT ![s] = "idle"]
    /\ pcnt' = [pcnt EXCEPT ![s] = @ + 1]
    /\ pcfg' = [pcfg EXCEPT ![s] = NoPatch]
    /\ pinfo' = [pinfo EXCEPT ![s] = NoRow]
    /\ UNCHANGED <<reg, worker, intr, rpc, teardowns, cpc, ccfg, wpc, kpc, fpc, fcalls,
                   spc, svisit, clock, joinVars, gate, boot, lst, auxVars, partVars>>
    /\ iofail' = (iofail \/ ~storeOk)

\* ------------------------------------------------------------ server.New
\* the server process ends (it exits after Stop, or it dies) and New builds a
\* server on the same data folder: the three stores are opened as they were
\* left, the registry is a new empty map, every goroutine and every request of
\* the old process is gone.  New reads no row.  The workers are processes of
\* their own; the uuids the old process drew are not drawn again
ServerRestart ==
    /\ boot < MaxRestarts
    /\ boot' = boot + 1
    /\ reg' = [s \in Streams |-> FALSE]
    /\ rpc' = [s \in Streams |-> IF rpc[s] = "open" THEN "closed" ELSE rpc[s]]
    /\ intr' = [s \in Streams |-> "none"]
    /\ cpc' = [s \in Streams |-> IF cpc[s] \in {"idle", "done", "failed"} THEN cpc[s]
                                  ELSE "aborted"]
    /\ wpc' = [s \in Streams |-> "none"]
    /\ kpc' = [s \in Streams |-> [k \in Killers |-> "idle"]]
    /\ fpc' = [s \in Streams |-> "idle"]
    /\ spc' = "idle"
    /\ svisit' = {}
    /\ ppc' = [s \in Streams |-> "idle"]
    /\ pcfg' = [s \in Streams |-> NoPatch]
    /\ pinfo' = [s \in Streams |-> NoRow]
    /\ jst' = [c \in Calls |-> IF jst[c].pc \in {"idle", "returned"} THEN jst[c]
                                ELSE [jst[c] EXCEPT !.pc = "returned", !.list = <<>>,
                                                    !.result = "aborted"]]
    /\ pending' = [s \in Streams |-> {}]
    /\ dst' = [d \in Deciders |-> IF dst[d].pc = "sending"
                                   THEN [dst[d] EXCEPT !.pc = "done", !.result = "aborted"]
                                   ELSE dst[d]]
    /\ kerr' = [s \in Streams |-> [k \in Killers |-> FALSE]]
    /\ mint' = IF mint.pc = "loaded"
               THEN [mint EXCEPT !.pc = "idle", !.info = NoRow, !.result = "aborted"]
               ELSE mint
    /\ UNCHANGED <<row, worker, teardowns, ccfg, fcalls, pcnt, clock, plist, issued,
                   notified, gate, lst, iofail, dial, stops, partVars>>

\* ------------------------------------------------------------ StreamList
StreamSortByFieldUUID == "uuid"
StreamSortByFieldName == "name"
StreamSortByFieldStatus == "status"
StreamSortOrderAsc == "asc"
StreamSortOrderDesc == "desc"
StreamLaunchModeSingletonApp == "singleton_app"
StreamLaunchModeDockerContainer == "docker_container"

\* strings.Contains for the names and search phrases of the model
Contains(str, substr) == substr = "" \/ (substr = "al" /\ str = "alpha")

\* the position of a string among the strings of the model under Go's <
StrRank(str) == CASE str = "alpha" -> 1
                  [] str = "beta" -> 2
                  [] str = StreamStatusFinished -> 1
                  [] str = StreamStatusRunning -> 2
                  [] OTHER -> 0

InSeq(x, seq) == \E i \in 1..Len(seq) : seq[i] = x

\* isStreamFitsFilter: the search phrase is in the name or the description,
\* the launch mode and the status are among the listed ones (an empty list
\* lets every value through)
isStreamFitsFilter(stream, filter) ==
    /\ Contains(stream.name, filter.SearchPhrase)
            \/ Contains(stream.description, filter.SearchPhrase)
    /\ Len(filter.LaunchModes) = 0 \/ InSeq(stream.mode, filter.LaunchModes)
    /\ Len(filter.Statuses) = 0 \/ InSeq(stream.status, filter.Statuses)

\* the field the less function of filterStreams compares
SortKey(stream, sortBy) ==
    CASE sortBy = StreamSortByFieldUUID -> stream.uuid
      [] sortBy = StreamSortByFieldName -> StrRank(stream.name)
      [] sortBy = StreamSortByFieldStatus -> StrRank(stream.status)

\* the less functions of lines 440-491: < for asc, > for any other order
Less(a, b, sortBy, sortOrder) ==
    IF sortOrder = StreamSortOrderAsc
    THEN SortKey(a, sortBy) < SortKey(b, sortBy)
    ELSE SortKey(a, sortBy) > SortKey(b, sortBy)

\* sort.Slice on a slice of at most 12 elements (quickSort_func of the Go
\* releases the repository was written for) first compares and swaps the
\* elements six places apart, from the seventh element on ...
RECURSIVE ShellPass(_, _, _, _)
ShellPass(streams, i, sortBy, sortOrder) ==
    IF i > Len(streams) THEN streams
    ELSE ShellPass(IF Less(streams[i], streams[i - 6], sortBy, sortOrder)
                   THEN [streams EXCEPT ![i] = streams[i - 6], ![i - 6] = streams[i]]
                   ELSE streams,
                   i + 1, sortBy, sortOrder)

\* ... and then runs an insertion sort: each element moves left while it is
\* less than its left neighbour
RECURSIVE Insert(_, _, _, _)
Insert(sorted, x, sortBy, sortOrder) ==
    IF sorted = <<>> THEN <<x>>
    ELSE LET last == sorted[Len(sorted)] IN
         IF Less(x, last, sortBy, sortOrder)
         THEN Append(Insert(SubSeq(sorted, 1, Len(sorted) - 1), x, sortBy, sortOrder), last)
         ELSE Append(sorted, x)

RECURSIVE InsertionSort(_, _, _)
InsertionSort(streams, sortBy, sortOrder) ==
    IF streams = <<>> THEN <<>>
    ELSE Insert(InsertionSort(SubSeq(streams, 1, Len(streams) - 1), sortBy, sortOrder),
                streams[Len(streams)], sortBy, sortOrder)

\* filterStreams: sort by the field when it is a known one, else leave the
\* cursor's order
filterStreams(streams, sortBy, sortOrder) ==
    IF sortBy \in {StreamSortByFieldUUID, StreamSortByFieldName, StreamSortByFieldStatus}
    THEN InsertionSort(ShellPass(streams, 7, sortBy, sortOrder), sortBy, sortOrder)
    ELSE streams

\* StreamList lines 261-298: the rows of the store in cursor order that fit
\* the filter, sorted
FilteredSorted(store, filter) ==
    filterStreams(SelectSeq(store, LAMBDA stream : isStreamFitsFilter(stream, filter)),
                  filter.SortBy, filter.SortOrder)

\* a HasNext that is also true when the page ends with the list
HasNext_AtLeast(total, page, pageSize) == total >= page * pageSize

\* line 319: there is a next page when the list goes beyond this one
HasNext(total, page, pageSize) == total > page * pageSize

\* a StreamList whose pages start one page too far
StreamList_SkipsFirstPage(store, filter) ==
    LET streams == FilteredSorted(store, filter)
        startIndex == filter.Page * filter.PageSize
        endIndex == startIndex + filter.PageSize
        fromStart == IF startIndex < Len(streams)
                     THEN SubSeq(streams, startIndex + 1, Len(streams)) ELSE <<>>
        filteredStreams == IF endIndex < Len(streams)
                           THEN SubSeq(fromStart, 1, endIndex - startIndex) ELSE fromStart
    IN [Streams |-> filteredStreams, Count |-> Len(filteredStreams), Total |-> Len(streams),
        PageSize |-> filter.PageSize, Page |-> filter.Page,
        HasNext |-> HasNext(Len(streams), filter.Page, filter.PageSize)]

\* StreamList lines 300-320: the page is the slice [startIndex, endIndex) of
\* the sorted list, cut at its end
StreamList(store, filter) ==
    LET streams == FilteredSorted(store, filter)
        startIndex == (filter.Page - 1) * filter.PageSize
        endIndex == startIndex + filter.PageSize
        fromStart == IF startIndex < Len(streams)
                     THEN SubSeq(streams, startIndex + 1, Len(streams)) ELSE <<>>
        filteredStreams == IF endIndex < Len(streams)
                           THEN SubSeq(fromStart, 1, endIndex - startIndex) ELSE fromStart
    IN [Streams |-> filteredStreams, Count |-> Len(filteredStreams), Total |-> Len(streams),
        PageSize |-> filter.PageSize, Page |-> filter.Page,
        HasNext |-> HasNext(Len(streams), filter.Page, filter.PageSize)]

\* the admin client asks for the next page of its listing and appends the
\* Streams it gets; it goes on past the last row of the store. Each call
\* opens a read transaction of the store (Bucket.All) and returns without
\* Cursor.Close, the only place that ends it
ListPage ==
    /\ lst.pc = "paging"
    /\ LET r == StreamList(lst.store, [lst.filter EXCEPT !.Page = lst.page]) IN
        lst' = [lst EXCEPT !.acc = @ \o r.Streams, !.last = r, !.page = @ + 1,
                           !.tx = @ + 1,
                           !.pc = IF lst.page > Len(lst.store) THEN "done" ELSE "paging"]
    /\ UNCHANGED <<lifeVars, joinVars, gate, boot, iofail, auxVars, partVars>>

\* ------------------------------------------------------ JoinParticipant
\* a return path that leaves the entry in the map
DeferredDelete_Skipped(p, c) == p

\* line 90: the deferred Delete of the call's own entry, run on every return
\* after the entry was stored
DeferredDelete(p, c) == p \ {c}

\* a by_code branch that admits whatever code is supplied
ByCodeMatches_Any(stored, supplied) == TRUE

\* line 97: the supplied code is compared with the stored one by !=
ByCodeMatches(stored, supplied) == stored = supplied

\* joinStream handler and JoinParticipant lines 69-90: load the row and the
\* registry entry (not-found error when either is missing), draw a fresh
\* participant uuid and store the pending entry in the entry's map.
\* The uuids are handed out in the order 1, 2, ...
JoinStart(c, s, supplied) ==
    /\ Accepting
    /\ Known(s)
    /\ jst[c].pc = "idle"
    /\ \A b \in Calls : b < c => jst[b].pc # "idle"
    /\ IF row[s] = NoRow \/ ~reg[s]
       THEN /\ jst' = [jst EXCEPT ![c] = [@ EXCEPT !.pc = "returned", !.stream = s,
                                           !.supplied = supplied, !.result = "notfound"]]
            /\ pending' = pending
       ELSE /\ jst' = [jst EXCEPT ![c] = [@ EXCEPT !.pc = "stored", !.stream = s,
                                           !.supplied = supplied,
                                           !.policy = row[s].policy, !.code = row[s].code]]
            /\ pending' = [pending EXCEPT ![s] = @ \cup {c}]
    /\ UNCHANGED <<lifeVars, plist, notified, issued, dst, gate, boot, lst, iofail, auxVars, partVars>>

\* lines 92-109, the paths that do not wait: auto allows; by_code returns the
\* invalid-code error on a mismatch and allows otherwise; host_resolve goes to
\* the receive on the call's channel; any other policy returns an error
JoinSwitch(c) ==
    /\ jst[c].pc = "stored"
    /\ LET j == jst[c]
           outcome == CASE j.policy = JoinPolicyAuto -> "admit"
                        [] j.policy = JoinPolicyByCode ->
                            IF ByCodeMatches(j.code, j.supplied) THEN "admit" ELSE "invalidcode"
                        [] j.policy = JoinPolicyHostResolve -> "waiting"
                        [] OTHER -> "unknownpolicy"
       IN IF outcome \in {"admit", "waiting"}
          THEN /\ jst' = [jst EXCEPT ![c] = [@ EXCEPT !.pc = outcome,
                                                      !.allowed = (outcome = "admit")]]
               /\ pending' = pending
          ELSE /\ jst' = [jst EXCEPT ![c] = [@ EXCEPT !.pc = "returned", !.result = outcome]]
               /\ pending' = [pending EXCEPT ![j.stream] = DeferredDelete(@, c)]
    /\ UNCHANGED <<lifeVars, plist, notified, issued, dst, gate, boot, lst, iofail, auxVars, partVars>>

\* lines 111-125: mint the participant token, set the status active and load
\* the stored participant list of the stream (a transaction of its own)
JoinLoad(c) ==
    /\ jst[c].pc = "admit"
    /\ jst' = [jst EXCEPT ![c] = [@ EXCEPT !.pc = "loaded", !.list = plist[jst[c].stream]]]
    /\ UNCHANGED <<lifeVars, pending, plist, notified, issued, dst, gate, boot, lst, iofail, auxVars, partVars>>

\* a token for the UUID field of the join request, which the handler leaves
\* empty
JoinTokenUUID_OfRequest(pInfoUUID, requestUUID) == requestUUID

\* lines 111-112: the token is generated for pInfo.UUID, the uuid drawn at
\* line 82, under which the pending entry is stored and the record appended
JoinTokenUUID(pInfoUUID, requestUUID) == pInfoUUID

\* the UUID field of the service.Participant the joinStream handler builds
\* (lines 30-35 of the handler set Name, AvatarID and IP only)
RequestUUID == 0

\* lines 126-140: append the participant record to the list that was loaded,
\* store it, dispatch addNewParticipant and return the decision with the
\* token; a failed store returns an error instead
JoinAdmit(c, storeOk) ==
    /\ jst[c].pc = "loaded"
    /\ LET s == jst[c].stream IN
        /\ plist' = IF storeOk THEN [plist EXCEPT ![s] = Append(jst[c].list, c)] ELSE plist
        /\ issued' = IF storeOk
                     THEN issued \cup {generateStreamAccessToken(
                                            s, JoinTokenUUID(c, RequestUUID), FALSE, s)}
                     ELSE issued
        /\ notified' = IF storeOk THEN notified \cup {c} ELSE notified
        /\ jst' = [jst EXCEPT ![c] = [@ EXCEPT !.pc = "returned", !.list = <<>>,
                        !.result = IF ~storeOk THEN "storeerr"
                                   ELSE IF jst[c].allowed THEN "allowed" ELSE "denied"]]
        /\ pending' = [pending EXCEPT ![s] = DeferredDelete(@, c)]
    /\ iofail' = (iofail \/ ~storeOk)
    /\ UNCHANGED <<lifeVars, dst, gate, boot, lst, auxVars, partVars>>

\* the request context of a call blocked in the receive is cancelled (the
\* client went away); JoinParticipant never reads its context
JoinCancel(c) ==
    /\ jst[c].pc = "waiting"
    /\ ~jst[c].cancelled
    /\ jst' = [jst EXCEPT ![c].cancelled = TRUE]
    /\ UNCHANGED <<lifeVars, pending, plist, notified, issued, dst, gate, boot, lst, iofail, auxVars, partVars>>

\* a receive whose value is not looked at: the call goes on to the admission
ReceiveDecision_Ignored(allowed) == "admit"

\* lines 102 and 107-109: the value received on the call's channel is the
\* decision; a denied call returns at once, an allowed one goes on to line 111
ReceiveDecision(allowed) == IF allowed THEN "admit" ELSE "returned"

\* ---------------------------------- StreamParticipants, PatchParticipant
\* the name and the avatar of the join requests, and those a participant
\* changes to
JoinName == "ann"
JoinAvatarID == "av1"
NewName == "bob"
NewAvatarID == "av2"
Nil == "nil"

\* JoinParticipant lines 81-88: the record of the pending map has the name
\* and the avatar of the request and the pending status
PendingParticipant(c) ==
    [UUID |-> c, Name |-> JoinName, AvatarID |-> JoinAvatarID,
     Status |-> "pending"]

\* JoinParticipant lines 117-130: the record appended to the stored list is
\* that record with the active status, and no other code writes the list
StoredParticipant(c) ==
    [UUID |-> c, Name |-> JoinName, AvatarID |-> JoinAvatarID,
     Status |-> "active"]

\* the sequences that hold each element of a set once
Orders(set) ==
    {q \in [1..Cardinality(set) -> set] : \A i, j \in 1..Cardinality(set) : q[i] = q[j] => i = j}

\* StreamParticipants lines 165-176: a not-found error without the registry
\* entry; else the Range over the entry's pending map appends every entry
\* it finds, in the order sync.Map yields them
ParticipantsRange(s) ==
    /\ Accepting
    /\ Known(s)
    /\ sp.pc \in {"idle", "done"}
    /\ sp.calls < MaxParticipantLists
    /\ IF ~reg[s]
       THEN sp' = [pc |-> "done", stream |-> s, calls |-> sp.calls + 1, list |-> <<>>,
                   result |-> "notfound", patched |-> FALSE]
       ELSE \E q \in Orders(pending[s]) :
                sp' = [pc |-> "ranged", stream |-> s, calls |-> sp.calls + 1,
                       list |-> [i \in 1..Len(q) |-> PendingParticipant(q[i])],
                       result |-> "none",
                       patched |-> (pp.pc = "done" /\ pp.result = "ok" /\ pp.stream = s)]
    /\ UNCHANGED <<lifeVars, joinVars, gate, boot, lst, iofail, auxVars, pp>>

\* StreamParticipants lines 178-200: Load the stored list, append its records
\* after the pending ones and return the whole
ParticipantsLoad ==
    /\ sp.pc = "ranged"
    /\ LET stored == plist[sp.stream] IN
        sp' = [sp EXCEPT !.pc = "done", !.result = "ok",
                         !.list = @ \o [i \in 1..Len(stored) |-> StoredParticipant(stored[i])]]
    /\ UNCHANGED <<lifeVars, joinVars, gate, boot, lst, iofail, auxVars, pp>>

\* PatchParticipant lines 206-253: not-found errors without the registry
\* entry, without a stored list or without the participant in it; else the
\* fields the config sets are changed in the record of the loaded list, which
\* is handed to updateParticipantInfo and returned. The loaded list is a
\* local of the call and is not stored.  The participant uuid comes from the
\* caller's token, so it is one a join call drew
PatchParticipant(s, c, cfg) ==
    /\ Accepting
    /\ Known(s)
    /\ pp.pc = "idle"
    /\ jst[c].pc # "idle"
    /\ IF ~reg[s] \/ plist[s] = <<>> \/ ~InSeq(c, plist[s])
       THEN pp' = [pp EXCEPT !.pc = "done", !.stream = s, !.uuid = c, !.result = "notfound"]
       ELSE LET p == StoredParticipant(c) IN
            pp' = [pc |-> "done", stream |-> s, uuid |-> c, result |-> "ok",
                   Name |-> IF cfg.Name # Nil THEN cfg.Name ELSE p.Name,
                   AvatarID |-> IF cfg.AvatarID # Nil THEN cfg.AvatarID ELSE p.AvatarID]
    /\ UNCHANGED <<lifeVars, joinVars, gate, boot, lst, iofail, auxVars, sp>>

\* ------------------------------------------------ DecideParticipantJoin
\* lines 146-156: not-found errors without the registry entry or without a
\* pending entry for the participant; else the call goes to the send on the
\* entry's channel.  The host names a participant uuid that a join call drew;
\* the host's calls are numbered in the order they are made
DecideStart(d, s, c, val) ==
    /\ Accepting
    /\ Known(s)
    /\ dst[d].pc = "idle"
    /\ \A b \in Deciders : b < d => dst[b].pc # "idle"
    /\ jst[c].pc # "idle"
    /\ IF ~reg[s] \/ c \notin pending[s]
       THEN dst' = [dst EXCEPT ![d] = [pc |-> "done", stream |-> s, target |-> c, val |-> val,
                                        result |-> "notfound"]]
       ELSE dst' = [dst EXCEPT ![d] = [pc |-> "sending", stream |-> s, target |-> c,
                                        val |-> val, result |-> "none"]]
    /\ UNCHANGED <<lifeVars, jst, pending, plist, notified, issued, gate, boot, lst, iofail, auxVars, partVars>>

\* a handoff that takes the value of any send, whatever channel it is on
Rendezvous_AnyChannel(d, c) ==
    /\ dst[d].pc = "sending"
    /\ jst[c].pc = "waiting"
    /\ dst' = [dst EXCEPT ![d] = [@ EXCEPT !.pc = "done", !.result = "ok"]]
    /\ IF ReceiveDecision(dst[d].val) = "admit"
       THEN /\ jst' = [jst EXCEPT ![c] = [@ EXCEPT !.pc = "admit", !.allowed = dst[d].val]]
            /\ pending' = pending
       ELSE /\ jst' = [jst EXCEPT ![c] = [@ EXCEPT !.pc = "returned", !.allowed = dst[d].val,
                                                   !.result = "denied"]]
            /\ pending' = [pending EXCEPT ![jst[c].stream] = DeferredDelete(@, c)]
    /\ UNCHANGED <<lifeVars, plist, notified, issued, gate, boot, lst, iofail, auxVars, partVars>>

\* the handoff on the unbuffered channel (JoinParticipant line 102,
\* DecideParticipantJoin line 157): a send and the receive of the waiting
\* call complete together; a denied call returns allowed=false (lines
\* 107-109), an allowed one goes on to line 111
Rendezvous(d, c) ==
    /\ dst[d].pc = "sending"
    /\ dst[d].target = c
    /\ jst[c].pc = "waiting"
    /\ dst' = [dst EXCEPT ![d] = [@ EXCEPT !.pc = "done", !.result = "ok"]]
    /\ IF ReceiveDecision(dst[d].val) = "admit"
       THEN /\ jst' = [jst EXCEPT ![c] = [@ EXCEPT !.pc = "admit", !.allowed = dst[d].val]]
            /\ pending' = pending
       ELSE /\ jst' = [jst EXCEPT ![c] = [@ EXCEPT !.pc = "returned", !.allowed = dst[d].val,
                                                   !.result = "denied"]]
            /\ pending' = [pending EXCEPT ![jst[c].stream] = DeferredDelete(@, c)]
    /\ UNCHANGED <<lifeVars, plist, notified, issued, gate, boot, lst, iofail, auxVars, partVars>>

\* ------------------------------------------------------- the stream gate
\* StreamKey: the public key of the registry entry, an error without entry
StreamKey(s) == IF reg[s] THEN s ELSE "nokey"

\* jwt.Parse with the key function of the middleware: the RS256 signature
\* verifies only under the public half of the key that signed the token, and
\* only when the claims are the signed ones
Verify(tok, publicKey) == tok.intact /\ tok.key = publicKey

\* the gate without the host check of lines 233-237
StreamAuthMiddleware_NoHostCheck(path, tok, hostSpecific) ==
    IF StreamKey(path) = "nokey" THEN "no_key"
    ELSE IF ~Verify(tok, StreamKey(path)) THEN "bad_token"
    ELSE IF path # tok.streamUUID THEN "access_denied"
    ELSE "pass"

\* StreamAuthMiddleware lines 189-243; the result names the check that
\* rejected the request (401 no key, 401 token does not verify, 403 access
\* denied, 401 only the host has access) or "pass"
StreamAuthMiddleware(path, tok, hostSpecific) ==
    IF StreamKey(path) = "nokey" THEN "no_key"
    ELSE IF ~Verify(tok, StreamKey(path)) THEN "bad_token"
    ELSE IF path # tok.streamUUID THEN "access_denied"
    ELSE IF hostSpecific /\ ~tok.host THEN "host_only"
    ELSE "pass"

\* what a client can present: a token the server handed out, or one of them
\* with altered claims, which no longer carries a valid signature
Tampered(tok) ==
    {[tok EXCEPT !.streamUUID = s, !.intact = FALSE] : s \in Streams \ {tok.streamUUID}}
    \cup {[tok EXCEPT !.host = ~tok.host, !.intact = FALSE]}
Presentable == issued \cup UNION {Tampered(tok) : tok \in issued}

\* a request to a stream-secured route (hostSpecific: decision, finish,
\* patch) reaches the gate
GateRequest(path, tok, hostSpecific) ==
    /\ Accepting
    /\ tok \in Presentable
    /\ gate' = [path |-> path, tok |-> tok, hostSpecific |-> hostSpecific,
                result |-> StreamAuthMiddleware(path, tok, hostSpecific)]
    /\ UNCHANGED <<lifeVars, joinVars, boot, lst, iofail, auxVars, partVars>>

\* ------------------------------------------------- lifecycle specification
\* one stream uuid, every lifecycle operation on it racing with the others
LifeStreams == {"s1"}
LifePolicies == {JoinPolicyAuto, JoinPolicyByCode, ""}
LifeCodes == {"", "111111"}
LifePatches ==
    {NoPatch, [NoPatch EXCEPT !.name = PatchName], [NoPatch EXCEPT !.host = PatchHost],
     [NoPatch EXCEPT !.join = TRUE, !.policy = JoinPolicyAuto, !.host = PatchHost]}
    \cup {[NoPatch EXCEPT !.join = TRUE, !.policy = p, !.code = c] :
                p \in LifePolicies, c \in LifeCodes}

NextCreate(S, P, C) ==
    \/ \E s \in S, p \in P, c \in C, startOk \in BOOLEAN, dialOk \in BOOLEAN :
            CreateStart(s, OperatorSubject, p, c, startOk, dialOk)
    \/ \E s \in S, storeOk \in BOOLEAN : CreateStore(s, storeOk)
    \/ \E s \in S : CreateInsert(s)

NextKill(S) ==
    \/ \E s \in S, k \in Killers : KillLoad(s, k)
    \/ \E s \in S, k \in Killers : KillTeardown(s, k)
    \/ \E s \in S, k \in Killers, storeOk \in BOOLEAN : KillRow(s, k, storeOk)

NextWorker(S) ==
    \/ \E s \in S, clean \in BOOLEAN : WorkerExit(s, clean)
    \/ \E s \in S : WatcherReceive(s)

NextStop(S) ==
    \/ StopBegin(S)
    \/ \E s \in S : StopVisit(s)
    \/ StopShutdown

NextPatch(S, Cfgs) ==
    \/ \E s \in S, cfg \in Cfgs : PatchLoad(s, cfg)
    \/ \E s \in S, storeOk \in BOOLEAN : PatchStore(s, storeOk)

Next ==
    \/ NextCreate(LifeStreams, LifePolicies, LifeCodes)
    \/ NextKill(LifeStreams)
    \/ NextWorker(LifeStreams)
    \/ \E s \in LifeStreams : FinishStream(s)
    \/ NextStop(LifeStreams)
    \/ NextPatch(LifeStreams, LifePatches)

Spec == Init /\ [][Next]_vars

\* ------------------------------------------------------ list specification
\* StreamList as a function of the store and the filter: the store holds up
\* to MaxListRows rows, which the bolt cursor yields in key (uuid) order; the
\* client pages through them with one filter
ListNames == {"alpha", "beta"}
ListStatuses == {StreamStatusRunning, StreamStatusFinished}
ListStores ==
    UNION {{[i \in 1..n |-> [uuid |-> i, name |-> f[i][1], description |-> "",
                            mode |-> StreamLaunchModeSingletonApp, status |-> f[i][2]]] :
                f \in [1..n -> ListNames \X ListStatuses]} : n \in 0..MaxListRows}
ListFilters ==
    [SearchPhrase : {"", "al"},
     LaunchModes : {<<>>, <<StreamLaunchModeDockerContainer>>},
     Statuses : {<<>>, <<StreamStatusRunning>>},
     SortBy : {StreamSortByFieldUUID, StreamSortByFieldName, StreamSortByFieldStatus, ""},
     SortOrder : {StreamSortOrderAsc, StreamSortOrderDesc},
     PageSize : 1..MaxPageSize,
     Page : {1}]
NoPage == [Streams |-> <<>>, Count |-> 0, Total |-> 0, PageSize |-> 0, Page |-> 0,
           HasNext |-> FALSE]

InitList ==
    /\ InitServer
    /\ lst \in {[pc |-> "paging", store |-> st, filter |-> f, page |-> 1, acc |-> <<>>,
                  last |-> NoPage, tx |-> 0] : st \in ListStores, f \in ListFilters}

NextList == ListPage

SpecList == InitList /\ [][NextList]_vars

\* ------------------------------------------------------ sort specification
\* StreamList over a store of MaxSortRows running rows, asked for in one page
\* sorted by each of the fields in each order
SortStores ==
    {[i \in 1..MaxSortRows |-> [uuid |-> i, name |-> f[i], description |-> "",
                                mode |-> StreamLaunchModeSingletonApp,
                                status |-> StreamStatusRunning]] :
        f \in [1..MaxSortRows -> ListNames]}
SortFilters ==
    [SearchPhrase : {""},
     LaunchModes : {<<>>},
     Statuses : {<<>>},
     SortBy : {StreamSortByFieldUUID, StreamSortByFieldName, StreamSortByFieldStatus},
     SortOrder : {StreamSortOrderAsc, StreamSortOrderDesc},
     PageSize : {MaxSortRows},
     Page : {1}]

InitSort ==
    /\ InitServer
    /\ lst \in {[pc |-> "paging", store |-> st, filter |-> f, page |-> 1, acc |-> <<>>,
                  last |-> NoPage, tx |-> 0] : st \in SortStores, f \in SortFilters}

NextSort == ListPage

SpecSort == InitSort /\ [][NextSort]_vars

\* -------------------------------------------------- launcher specification
\* the launchers of two streams, each started and dialled once, stopped by
\* their client and left by their workers in any order
DialOutcomes == [1..defaultConnectToStreamRetryCount -> BOOLEAN]

NextLauncher ==
    \/ \E s \in Streams, startOk \in BOOLEAN, outcomes \in DialOutcomes :
            LaunchStartAndConnect(s, startOk, outcomes)
    \/ \E s \in Streams : LauncherStop(s)
    \/ \E s \in Streams, clean \in BOOLEAN : WorkerExit(s, clean)

SpecLauncher == Init /\ [][NextLauncher]_vars

\* ----------------------------------------------------- token specification
\* one stream created by an operator or without a server token, running
\* through its life cycle, and operators asking for host tokens of it and of
\* a stream that does not exist
NextToken ==
    \/ \E s \in LifeStreams, subject \in {"", OperatorSubject}, startOk \in BOOLEAN,
          dialOk \in BOOLEAN : CreateStart(s, subject, JoinPolicyAuto, "", startOk, dialOk)
    \/ \E s \in LifeStreams, storeOk \in BOOLEAN : CreateStore(s, storeOk)
    \/ \E s \in LifeStreams : CreateInsert(s)
    \/ NextKill(LifeStreams)
    \/ NextWorker(LifeStreams)
    \/ \E s \in LifeStreams : FinishStream(s)
    \/ \E s \in Streams, subject \in Subjects : MintLoad(s, subject)
    \/ MintCheck

SpecToken == Init /\ [][NextToken]_vars

\* --------------------------------------------------- restart specification
\* one stream is created, finished or left running, and the server process is
\* started again on the same data folder
NextRestart ==
    \/ NextCreate(LifeStreams, {JoinPolicyAuto}, {""})
    \/ NextKill(LifeStreams)
    \/ NextWorker(LifeStreams)
    \/ \E s \in LifeStreams : FinishStream(s)
    \/ ServerRestart

SpecRestart == Init /\ [][NextRestart]_vars

\* ------------------------------------------------- admission specification
\* one stream, created under any policy, JoinParticipant calls and the host's
\* decisions on it, the host's patches of the join policy; the stream is
\* neither finished nor interrupted here, so
\* the only killStream that runs is the cleanup of a NewStream whose row store
\* failed, and that one finds no registry entry (its teardown branch is skipped)
JoinStreams == {"s1"}
JoinCreateCodes == {"", "111111"}
JoinSupplied == {"", "111111", "222222"}
\* the host may patch the join object to one without a policy, which the
\* validation lets through
JoinPatches == {[NoPatch EXCEPT !.join = TRUE]}

NextAdmission(S) ==
    \/ \E c \in Calls, s \in S, supplied \in JoinSupplied : JoinStart(c, s, supplied)
    \/ \E c \in Calls : JoinSwitch(c)
    \/ \E c \in Calls : JoinLoad(c)
    \/ \E c \in Calls, storeOk \in BOOLEAN : JoinAdmit(c, storeOk)
    \/ \E c \in Calls : JoinCancel(c)

NextDecide(S) ==
    \/ \E d \in Deciders, s \in S, c \in Calls, val \in BOOLEAN : DecideStart(d, s, c, val)
    \/ \E d \in Deciders, c \in Calls : Rendezvous(d, c)

NextJoin ==
    \/ NextCreate(JoinStreams, JoinPolicies, JoinCreateCodes)
    \/ \E s \in JoinStreams : KillLoad(s, "create")
    \/ \E s \in JoinStreams, storeOk \in BOOLEAN : KillRow(s, "create", storeOk)
    \/ NextPatch(JoinStreams, JoinPatches)
    \/ NextAdmission(JoinStreams)
    \/ NextDecide(JoinStreams)

SpecJoin == Init /\ [][NextJoin]_vars

\* the steps of a JoinParticipant call are taken by its own goroutine, which
\* the Go scheduler runs whenever it is runnable; the host's decisions and the
\* cancellations are up to the clients
SpecJoinFair ==
    /\ SpecJoin
    /\ \A c \in Calls : WF_vars(JoinSwitch(c))
    /\ \A c \in Calls : WF_vars(JoinLoad(c))
    /\ \A c \in Calls : WF_vars(\E storeOk \in BOOLEAN : JoinAdmit(c, storeOk))
    /\ \A c \in Calls, d \in Deciders : WF_vars(Rendezvous(d, c))

\* ----------------------------------------- admission during a kill
\* one stream under host_resolve that is finished or interrupted while a
\* JoinParticipant call and the host's decisions run on it
NextFinishJoin ==
    \/ NextCreate(LifeStreams, {JoinPolicyHostResolve}, {""})
    \/ NextKill(LifeStreams)
    \/ NextWorker(LifeStreams)
    \/ \E s \in LifeStreams : FinishStream(s)
    \/ \E s \in LifeStreams : JoinStart(1, s, "")
    \/ JoinSwitch(1)
    \/ JoinLoad(1)
    \/ \E storeOk \in BOOLEAN : JoinAdmit(1, storeOk)
    \/ NextDecide(LifeStreams)

SpecFinishJoin == Init /\ [][NextFinishJoin]_vars

\* -------------------------------------------- participants specification
\* one auto-join stream with the join calls, the listing of its participants
\* and one participant changing its name or avatar
ParticipantPatches == [Name : {Nil, NewName}, AvatarID : {Nil, NewAvatarID}]

NextParticipants ==
    \/ NextCreate(LifeStreams, {JoinPolicyAuto}, {""})
    \/ \E c \in Calls, s \in LifeStreams : JoinStart(c, s, "")
    \/ \E c \in Calls : JoinSwitch(c)
    \/ \E c \in Calls : JoinLoad(c)
    \/ \E c \in Calls, storeOk \in BOOLEAN : JoinAdmit(c, storeOk)
    \/ \E s \in LifeStreams : ParticipantsRange(s)
    \/ ParticipantsLoad
    \/ \E s \in LifeStreams, c \in Calls, cfg \in ParticipantPatches : PatchParticipant(s, c, cfg)

SpecParticipants == Init /\ [][NextParticipants]_vars

\* the goroutines of the join calls, of killStream and of the watcher run
\* whenever they can; the clients' requests are up to the clients
SpecFinishJoinFair ==
    /\ SpecFinishJoin
    /\ \A c \in Calls : WF_vars(JoinSwitch(c))
    /\ \A c \in Calls : WF_vars(JoinLoad(c))
    /\ \A c \in Calls : WF_vars(\E storeOk \in BOOLEAN : JoinAdmit(c, storeOk))
    /\ \A c \in Calls, d \in Deciders : WF_vars(Rendezvous(d, c))
    /\ \A s \in LifeStreams, k \in Killers : WF_vars(KillLoad(s, k))
    /\ \A s \in LifeStreams, k \in Killers : WF_vars(KillTeardown(s, k))
    /\ \A s \in LifeStreams, k \in Killers :
            WF_vars(\E storeOk \in BOOLEAN : KillRow(s, k, storeOk))
    /\ \A s \in LifeStreams : WF_vars(WatcherReceive(s))

\* ------------------------------------------------------ gate specification
\* two streams; the first runs through its whole life cycle (worker exit,
\* interrupt, finish) and admits a participant, the second is only created
GateStreams == {"s1", "s2"}
GateLifeStreams == {"s1"}

NextGate ==
    \/ NextCreate(GateStreams, {JoinPolicyAuto}, {""})
    \/ NextKill(GateLifeStreams)
    \/ NextWorker(GateLifeStreams)
    \/ \E s \in GateLifeStreams : FinishStream(s)
    \/ \E s \in GateLifeStreams : JoinStart(1, s, "")
    \/ JoinSwitch(1)
    \/ JoinLoad(1)
    \/ \E storeOk \in BOOLEAN : JoinAdmit(1, storeOk)
    \/ \E path \in GateStreams, tok \in Presentable, hostSpecific \in BOOLEAN :
            GateRequest(path, tok, hostSpecific)

SpecGate == Init /\ [][NextGate]_vars

\* ------------------------------------------------------ lifecycle claims
\* an operation on s is between two of its steps, or an interrupt of s is
\* waiting for the watcher
InFlight(s) ==
    \/ cpc[s] \in {"started", "stored", "killing"}
    \/ \E k \in Killers : kpc[s][k] # "idle"
    \/ ppc[s] = "loaded"
    \/ wpc[s] = "listening" /\ intr[s] = "pending"

RowRunning(s) == row[s].status = StreamStatusRunning /\ row[s].finishedAt = 0
RowFinished(s) == row[s].status = StreamStatusFinished /\ row[s].finishedAt # 0

\* C1 (P1, registry/persistence consistency): for every stream uuid exactly
\* one of (a) registry entry and row running with finished-at null, (b) no
\* entry and row finished with finished-at set, (c) neither entry nor row.
\* The three cases exclude each other, so "exactly one" is their disjunction.
\* Stated in the claim's favour only for states in which no operation on the
\* stream is in flight and no store write has failed.
C1_RegistryRowConsistent ==
    \A s \in Streams :
        (~InFlight(s) /\ ~iofail) =>
            \/ reg[s] /\ RowRunning(s)
            \/ ~reg[s] /\ RowFinished(s)
            \/ ~reg[s] /\ row[s] = NoRow

C3_SingleTeardown == \A s \in Streams : teardowns[s] <= 1

\* C9 (create failure cleanup): when NewStream has returned an error, the
\* worker it may have started is not running, and neither a registry entry
\* nor a stored row exists for the new uuid.
C9_CreateFailureCleanup ==
    \A s \in Streams :
        cpc[s] = "failed" => (worker[s] # "running" /\ ~reg[s] /\ row[s] = NoRow)

\* C10 (interrupt reconciliation), in the form a finite run refutes: once the
\* worker that NewStream started has exited on its own and nothing is left in
\* flight for the stream (NewStream returned, no interrupt waits for the
\* watcher, no killStream is running, no store write failed), the registry
\* holds no entry for the stream and its row is finished with finished-at set.
C10_InterruptReconciled ==
    \A s \in Streams :
        (worker[s] \in {"crashed", "exited0"} /\ cpc[s] = "done" /\ ~InFlight(s) /\ ~iofail)
            => (~reg[s] /\ RowFinished(s))

\* C11 (finished is terminal): no step takes a stored row whose status is
\* finished back to running or clears its finished-at.
C11_FinishedTerminal ==
    [][\A s \in Streams :
            row[s].status = StreamStatusFinished =>
                (row'[s].status = StreamStatusFinished /\ row'[s].finishedAt # 0)]_vars

\* C12 (startup reconciliation): once the server has been constructed again
\* over the store a previous process left, no stored row is running without a
\* live registry entry (rows of streams whose creation is in flight in the
\* new process aside).
C12_StartupReconciled ==
    \A s \in Streams :
        (boot > 0 /\ ~InFlight(s) /\ ~iofail) =>
            (row[s].status = StreamStatusRunning => reg[s])

\* a request handler is between two of its steps (http.Server.Shutdown
\* returns only when no connection is active any more)
RequestInFlight ==
    \/ \E s \in Streams : \/ cpc[s] \in {"started", "stored", "killing"}
                           \/ fpc[s] # "idle"
                           \/ ppc[s] # "idle"
    \/ \E c \in Calls : jst[c].pc \notin {"idle", "returned"}
    \/ \E d \in Deciders : dst[d].pc = "sending"

\* Server.Stop has returned
StopReturned == spc = "done" /\ ~RequestInFlight

\* C13 (ordered shutdown): once Server.Stop has returned, no registry entry
\* remains and no worker that a request started is left running.
C13_StopLeavesNothing ==
    StopReturned => \A s \in Streams : ~reg[s] /\ worker[s] # "running"

\* C17 (join-code presence): in every stored row join.code is non-empty if
\* and only if join.policy is by_code.
C17_JoinCodePresence ==
    \A s \in Streams :
        row[s] # NoRow => (row[s].code # "" <=> row[s].policy = JoinPolicyByCode)

\* this step is the successful return of a PatchStream call on s: its Store
\* went through (no store write has failed so far)
PatchSucceeds(s) == ppc[s] = "loaded" /\ ppc'[s] = "idle" /\ ~iofail' /\ boot' = boot

\* C18 (patch frame): a successful PatchStream leaves status and finished-at
\* of the row as they are, changes name, join policy+code and host
\* username/avatar only when the caller provided them, and leaves the
\* registry entry, the rpc link and the worker alone.
C18_PatchFrame ==
    [][\A s \in Streams :
            PatchSucceeds(s) =>
                /\ row'[s].status = row[s].status
                /\ row'[s].finishedAt = row[s].finishedAt
                /\ pcfg[s].name = "" => row'[s].name = row[s].name
                /\ ~pcfg[s].join => (row'[s].policy = row[s].policy /\ row'[s].code = row[s].code)
                /\ pcfg[s].host = "" => row'[s].host = row[s].host
                /\ reg' = reg /\ rpc' = rpc /\ worker' = worker]_vars

\* C19 (patch applies host fields): after a successful patch request whose
\* body provides the host username/avatar, the stored row carries them.
C19_PatchAppliesHost ==
    [][\A s \in Streams :
            (PatchSucceeds(s) /\ pcfg[s].host # "") => row'[s].host = pcfg[s].host]_vars

\* the events of kind e in a call's record
CountOf(events, e) == Cardinality({i \in 1..Len(events) : events[i] = e})

\* C22 (host-token minting): the step in which a NewStreamHostToken(s,
\* subject) call returns gives a token only if s has a registry entry and a
\* row whose stored subject is non-empty and equal to the caller's; that
\* token has host=true, carries s and the stored host uuid and verifies under
\* the key of s; otherwise the call returns an error, no token, and no token
\* is minted.
C22_HostTokenMinting ==
    [][(mint.pc = "loaded" /\ mint'.pc = "idle" /\ boot' = boot) =>
            LET s == mint.stream IN
            /\ mint'.result \in {"token", "notfound", "badsubject"}
            /\ mint'.result = "token" =>
                    /\ reg[s] /\ row[s] # NoRow
                    /\ row[s].subject # "" /\ row[s].subject = mint.subject
                    /\ mint'.tok.host /\ mint'.tok.streamUUID = s
                    /\ mint'.tok.UUID = row[s].hostUUID /\ mint'.tok.UUID = HostUUID(s)
                    /\ Verify(mint'.tok, StreamKey(s))
            /\ mint'.result # "token" => (mint'.tok = NoToken /\ issued' = issued)]_vars

\* the second NewStreamHostToken call gave the operator who created the
\* stream a host token for it
C22_Witness ==
    /\ mint.pc = "idle" /\ mint.cnt = 2
    /\ mint.result = "token" /\ mint.subject = OperatorSubject
    /\ mint.tok = generateStreamAccessToken(mint.stream, HostUUID(mint.stream), TRUE,
                                            mint.stream)

\* C23 (dial with retry): a connectToStream(address, 3) call makes at most 3
\* dial attempts, makes none after the first that succeeds, sleeps only
\* between two attempts, and returns the timeout error if and only if all 3
\* attempts fail.
C23_DialRetry ==
    \A s \in Streams :
        dial[s].outcomes # <<>> =>
            LET d == dial[s]
                n == Len(d.events)
                firstOk == {i \in 1..3 : d.outcomes[i] /\ \A j \in 1..(i - 1) : ~d.outcomes[j]}
            IN /\ CountOf(d.events, "dial") <= 3
               /\ \A i \in firstOk : CountOf(d.events, "dial") = i /\ d.events[n] = "dial"
               /\ \A i \in 1..n : d.events[i] = "sleep" =>
                        (i > 1 /\ i < n /\ d.events[i - 1] = "dial" /\ d.events[i + 1] = "dial")
               /\ d.err <=> \A i \in 1..3 : ~d.outcomes[i]

\* C25 (launcher stop is idempotent): a Stop call on a launcher that is not
\* the first one reports no failure that the first call did not report.
C25_StopIdempotent ==
    \A s \in Streams :
        \A i \in 2..Len(stops[s]) : stops[s][i] = "err" => stops[s][1] = "err"

\* C24 (interrupt channel): a value is delivered on the launcher's interrupt
\* channel only for a worker that exited on its own; a worker that was ended
\* by an explicit Stop delivers none.
C24_InterruptOnlyOnOwnExit ==
    \A s \in Streams : intr[s] = "delivered" => worker[s] \in {"crashed", "exited0"}

\* C26 (best-effort teardown): when Close of the rpc client or Stop of the
\* worker returns an error in a killStream invocation, the teardown step still
\* removes the registry entry and goes on to the row, and the step that ends
\* the invocation, when its store goes through, leaves the row finished with
\* finished-at set.
C26_BestEffortTeardown ==
    [][\A s \in Streams, k \in Killers :
            /\ (kpc[s][k] = "loaded" /\ kpc'[s][k] # "loaded" /\ kerr'[s][k] /\ boot' = boot)
                    => (~reg'[s] /\ kpc'[s][k] = "row")
            /\ (kpc[s][k] = "row" /\ kpc'[s][k] = "idle" /\ kerr[s][k] /\ ~iofail'
                                  /\ boot' = boot)
                    => (row'[s].status = StreamStatusFinished /\ row'[s].finishedAt # 0)]_vars

\* a killStream invocation in which Close or Stop failed has returned: the
\* entry is gone and the row is finished
C26_Witness ==
    \E s \in Streams, k \in Killers :
        /\ kerr[s][k] /\ kpc[s][k] = "idle" /\ ~iofail
        /\ "err" \in {stops[s][i] : i \in 1..Len(stops[s])}
        /\ ~reg[s] /\ RowFinished(s)

\* C27 (create success): the step in which NewStream returns successfully
\* leaves a registry entry and a stored row with status running for the new
\* uuid, and the host token it returns carries that uuid, the host uuid and
\* host=true and verifies against the key StreamKey returns for the uuid.
C27_CreateSuccess ==
    [][\A s \in Streams :
            (cpc[s] = "stored" /\ cpc'[s] = "done") =>
                LET tok == generateStreamAccessToken(s, HostUUID(s), TRUE, s) IN
                /\ reg'[s]
                /\ row'[s].status = StreamStatusRunning
                /\ tok \in issued'
                /\ tok.streamUUID = s /\ tok.UUID = HostUUID(s) /\ tok.host
                /\ Verify(tok, StreamKey(s))']_vars

C29_WatcherAfterInsert ==
    \A s \in Streams : wpc[s] \in {"killing", "done"} => cpc[s] = "done"

\* C33 (finished-at is written once): a killStream invocation that ends on a
\* row whose finished-at is already set leaves that value as it is.
C33_FinishedAtWrittenOnce ==
    [][\A s \in Streams :
            (/\ row[s].finishedAt # 0
             /\ \E k \in Killers : kpc[s][k] = "row" /\ kpc'[s][k] = "idle"
             /\ boot' = boot)
                => row'[s].finishedAt = row[s].finishedAt]_vars

C5_CancelledJoinReturns ==
    \A c \in Calls :
        (jst[c].pc = "waiting" /\ jst[c].cancelled) ~> (jst[c].pc = "returned")

\* C6 (P4 / I2, by_code strictness): a call that read the policy by_code is
\* admitted only with the stored code, which is not empty; with any other
\* code it gets the invalid-code error; with the stored code it is admitted
\* unless the store of the participant list fails.
C6_ByCodeStrict ==
    \A c \in Calls :
        (jst[c].policy = JoinPolicyByCode /\ jst[c].pc = "returned") =>
            /\ jst[c].result = "allowed" => (jst[c].supplied = jst[c].code /\ jst[c].code # "")
            /\ jst[c].supplied # jst[c].code => (jst[c].result = "invalidcode" /\ ~jst[c].allowed)
            /\ jst[c].supplied = jst[c].code => jst[c].result \in {"allowed", "storeerr"}

\* one by_code call admitted and another one turned away
C6_Witness ==
    /\ \E c \in Calls : /\ jst[c].policy = JoinPolicyByCode
                        /\ jst[c].result = "allowed"
                        /\ c \in {plist[jst[c].stream][i] : i \in 1..Len(plist[jst[c].stream])}
    /\ \E c \in Calls : jst[c].policy = JoinPolicyByCode /\ jst[c].result = "invalidcode"

\* the participant uuids of a stored participant list
ListIds(list) == {list[i] : i \in 1..Len(list)}

\* C14 (admission durability): every JoinParticipant call that returned
\* allowed=true with a token has a record for its participant uuid in the
\* stored participant list of its stream, however many admissions run
\* concurrently on the stream.
C14_AdmittedIsStored ==
    \A c \in Calls :
        jst[c].result = "allowed" => c \in ListIds(plist[jst[c].stream])

\* C15 (rejected joins leave no durable trace): a call that ended with
\* allowed=false or with the error of a wrong join code, an unknown policy or
\* an unknown or finished stream has no record in any stored participant
\* list, no token was minted for its participant uuid and no NewParticipant
\* notification was dispatched for it.
C15_RejectedLeavesNoTrace ==
    \A c \in Calls :
        jst[c].result \in {"denied", "invalidcode", "unknownpolicy", "notfound"} =>
            /\ \A s \in Streams : c \notin ListIds(plist[s])
            /\ \A tok \in issued : tok.UUID # c
            /\ c \notin notified

\* one call was turned away for the unknown policy the stream was patched to,
\* another call of the stream was admitted, stored and notified
C15_Witness ==
    /\ \E c \in Calls : jst[c].pc = "returned" /\ jst[c].result = "unknownpolicy"
    /\ \E c \in Calls : /\ jst[c].result = "allowed"
                        /\ c \in notified
                        /\ c \in ListIds(plist[jst[c].stream])

\* C16 (host-resolve result): a call that read the policy host_resolve gets
\* past its receive only when a DecideParticipantJoin call for its participant
\* uuid on its stream has handed its boolean over, and the allowed value the
\* call carries and returns is that boolean.
C16_HostResolveResult ==
    \A c \in Calls :
        (jst[c].policy = JoinPolicyHostResolve /\ jst[c].pc \in {"admit", "loaded", "returned"}) =>
            /\ \E d \in Deciders : /\ dst[d].target = c
                                    /\ dst[d].stream = jst[c].stream
                                    /\ dst[d].result = "ok"
                                    /\ dst[d].val = jst[c].allowed
            /\ jst[c].result = "allowed" => jst[c].allowed
            /\ jst[c].result = "denied" => ~jst[c].allowed

\* one waiting call was allowed by the host and returned a token, another
\* one was denied
C16_Witness ==
    /\ \E c \in Calls, d \in Deciders :
            /\ jst[c].policy = JoinPolicyHostResolve /\ jst[c].result = "allowed"
            /\ dst[d].target = c /\ dst[d].result = "ok" /\ dst[d].val
    /\ \E c \in Calls, d \in Deciders :
            /\ jst[c].policy = JoinPolicyHostResolve /\ jst[c].result = "denied"
            /\ dst[d].target = c /\ dst[d].result = "ok" /\ ~dst[d].val

\* C30 (pending entries are host-resolve only): every entry of a stream's
\* pending map belongs to a JoinParticipant call that is waiting for the
\* host's decision under host_resolve; a join under auto or by_code never
\* inserts one.
C30_PendingOnlyHostResolve ==
    \A s \in Streams : \A c \in pending[s] :
        jst[c].policy = JoinPolicyHostResolve /\ jst[c].pc \in {"stored", "waiting"}

\* C35 (waiters are released on finish): a JoinParticipant call that is
\* blocked on the rendezvous of a stream whose row has become finished
\* eventually returns.
C35_WaitersReleased ==
    \A c \in Calls :
        (jst[c].pc = "waiting" /\ row[jst[c].stream].status = StreamStatusFinished)
            ~> (jst[c].pc = "returned")

\* C38 (no admission to a finished stream): no JoinParticipant call appends
\* its record and returns its token when the row of the stream is finished.
C38_NoAdmissionAfterFinish ==
    [][\A c \in Calls :
            (jst[c].pc = "loaded" /\ jst'[c].pc = "returned" /\ jst'[c].result = "allowed")
                => row[jst[c].stream].status # StreamStatusFinished]_vars

\* C40 (token binds the admitted participant): the step in which a
\* JoinParticipant call returns its token mints exactly one token; it carries
\* host=false, the uuid of the joined stream and the participant uuid of the
\* record the call appended to the stored list, which is the uuid its pending
\* entry was stored under.
C40_TokenBindsParticipant ==
    [][\A c \in Calls :
            (jst[c].pc = "loaded" /\ jst'[c].pc = "returned" /\ jst'[c].result = "allowed"
                                 /\ boot' = boot) =>
                LET s == jst[c].stream
                    minted == issued' \ issued
                IN /\ Cardinality(minted) = 1
                   /\ c \in pending[s]
                   /\ plist'[s] # <<>> /\ plist'[s][Len(plist'[s])] = c
                   /\ \A tok \in minted :
                        /\ ~tok.host /\ tok.streamUUID = s /\ tok.UUID = c
                        /\ Verify(tok, s)]_vars

\* a call that waited for the host and was allowed holds the token of its
\* own participant uuid, and its record is in the stored list
C40_Witness ==
    \E c \in Calls :
        /\ jst[c].policy = JoinPolicyHostResolve /\ jst[c].result = "allowed"
        /\ generateStreamAccessToken(jst[c].stream, c, FALSE, jst[c].stream) \in issued
        /\ InSeq(c, plist[jst[c].stream])

\* C31 (one waiter, one decision): at most one DecideParticipantJoin call
\* succeeds for a participant uuid, and a call made for a participant uuid
\* whose decision was already delivered returns the not-found error.
C31_OneWaiterOneDecision ==
    [][/\ \A d, e \in Deciders :
            (d # e /\ dst'[d].result = "ok" /\ dst'[e].result = "ok")
                => dst'[d].target # dst'[e].target
       /\ \A d \in Deciders :
            (/\ dst[d].pc = "idle" /\ dst'[d].pc # "idle"
             /\ \E e \in Deciders : dst[e].result = "ok" /\ dst[e].target = dst'[d].target)
                => dst'[d].result = "notfound"]_vars

\* C34 (decide terminates): every DecideParticipantJoin call that has reached
\* its send eventually returns.
C34_DecideReturns ==
    \A d \in Deciders : (dst[d].pc = "sending") ~> (dst[d].pc = "done")

\* ----------------------------------------------------------- list claims
\* C20 (P5, pagination): the Streams of the pages 1, 2, ... the client has
\* fetched, concatenated in order, are the first (pages fetched) x (page size)
\* rows of the filtered, sorted list; once the client is past the last page
\* they are the whole list: every row of the store that fits the filter
\* occurs exactly once, in the order of the sort.
C20_PagesConcatenate ==
    lst.pc # "idle" =>
        LET full == FilteredSorted(lst.store, lst.filter)
            fetched == (lst.page - 1) * lst.filter.PageSize
            fits == {i \in 1..Len(lst.store) : isStreamFitsFilter(lst.store[i], lst.filter)}
        IN /\ lst.acc = SubSeq(full, 1, IF fetched < Len(full) THEN fetched ELSE Len(full))
           /\ lst.pc = "done" =>
                /\ {lst.acc[i].uuid : i \in 1..Len(lst.acc)} = {lst.store[i].uuid : i \in fits}
                /\ Len(lst.acc) = Cardinality(fits)
                /\ lst.filter.SortBy # "" =>
                        \A i, j \in 1..Len(lst.acc) :
                            i < j => ~Less(lst.acc[j], lst.acc[i], lst.filter.SortBy,
                                           lst.filter.SortOrder)

\* a listing of two pages, sorted by name downwards against the cursor's
\* order, with a row of the store filtered out
C20_Witness ==
    /\ lst.pc = "done"
    /\ Len(lst.store) = 3
    /\ Len(lst.acc) = 2
    /\ lst.filter.PageSize = 1
    /\ lst.filter.Statuses = <<StreamStatusRunning>>
    /\ lst.filter.SortBy = StreamSortByFieldName
    /\ lst.filter.SortOrder = StreamSortOrderDesc
    /\ lst.acc[1].name = "beta" /\ lst.acc[2].name = "alpha"
    /\ lst.acc[1].uuid > lst.acc[2].uuid

\* C21 (list metadata): in the result of every StreamList call, total is the
\* number of rows of the store that fit the filter, count is the number of
\* streams in the page and at most the page size, and hasNext is
\* total > page*pageSize, which is true exactly when the next page is not
\* empty.
C21_ListMetadata ==
    (lst.pc # "idle" /\ lst.page > 1) =>
        LET r == lst.last
            fits == {i \in 1..Len(lst.store) : isStreamFitsFilter(lst.store[i], lst.filter)}
            next == StreamList(lst.store, [lst.filter EXCEPT !.Page = r.Page + 1])
        IN /\ r.Page = lst.page - 1 /\ r.PageSize = lst.filter.PageSize
           /\ r.Total = Cardinality(fits)
           /\ r.Count = Len(r.Streams) /\ r.Count <= r.PageSize
           /\ r.HasNext <=> r.Total > r.Page * r.PageSize
           /\ r.HasNext <=> next.Streams # <<>>

\* a full page that ends exactly with the list: no next page
C21_Witness ==
    /\ lst.pc # "idle" /\ lst.page > 1
    /\ lst.last.Count = 2 /\ lst.last.PageSize = 2 /\ lst.last.Total = 2
    /\ Len(lst.store) = 3
    /\ ~lst.last.HasNext

\* ------------------------------------------------------------ gate claims
\* a FinishStream call on s has returned nil, or the watcher goroutine of s
\* has gone through its killStream
KillCompleted(s) ==
    \/ \E i \in 1..Len(fcalls[s]) : fcalls[s][i] = "ok"
    \/ wpc[s] = "done"

\* C7 (P2, key destruction): in every state after FinishStream(s) or an
\* interrupt of s has completed, the gate rejects every stream token for s,
\* host or participant, on every route.
C7_NoTokenAfterKill ==
    \A s \in Streams :
        KillCompleted(s) =>
            \A tok \in issued, hostSpecific \in BOOLEAN :
                StreamAuthMiddleware(s, tok, hostSpecific) # "pass"

\* C8 (P7, host binding): a request the gate passed carried a token with
\* intact claims, signed by the key of the stream in the path, whose
\* streamUUID claim is that stream; on a host-only route its host claim is
\* true.
C8_HostBinding ==
    gate.result = "pass" =>
        /\ gate.hostSpecific => gate.tok.host
        /\ gate.tok.streamUUID = gate.path
        /\ gate.tok.key = gate.path
        /\ gate.tok.intact

\* a participant's own valid token was turned away by a host-only route
C8_Witness ==
    /\ gate.result = "host_only"
    /\ gate.hostSpecific /\ ~gate.tok.host
    /\ gate.tok \in issued

\* C37: every StreamList call has ended the scan of the store it opened when
\* it returns: no read transaction of a listing is open between two calls
C37_ScanReleased ==
    lst.pc # "idle" => lst.tx = 0

\* C32: a listing sorted by a field is in the order of that field, and the
\* rows that are equal in it keep the order of the store's scan (by uuid)
C32_SortKeepsScanOrder ==
    (lst.pc # "idle" /\ lst.page > 1 /\ lst.last.Page = 1
            /\ lst.filter.PageSize >= Len(lst.store)) =>
        LET r == lst.last.Streams IN
        /\ Len(r) = Cardinality({i \in 1..Len(lst.store) :
                                    isStreamFitsFilter(lst.store[i], lst.filter)})
        /\ lst.filter.SortBy # "" =>
            \A i, j \in 1..Len(r) :
                i < j =>
                    /\ ~Less(r[j], r[i], lst.filter.SortBy, lst.filter.SortOrder)
                    /\ SortKey(r[i], lst.filter.SortBy) = SortKey(r[j], lst.filter.SortBy)
                            => r[i].uuid < r[j].uuid

\* C36: the list a StreamParticipants call returns holds no participant uuid
\* twice, whatever join calls run during the call
C36_NoDuplicateParticipants ==
    (sp.pc = "done" /\ sp.result = "ok") =>
        \A i, j \in 1..Len(sp.list) : sp.list[i].UUID = sp.list[j].UUID => i = j

\* C39: a StreamParticipants call that starts after a PatchParticipant call
\* on the stream returned a record reports that participant with the name
\* and the avatar of the returned record
C39_PatchedParticipantListed ==
    (sp.pc = "done" /\ sp.result = "ok" /\ sp.patched) =>
        /\ \E i \in 1..Len(sp.list) : sp.list[i].UUID = pp.uuid
        /\ \A i \in 1..Len(sp.list) :
                sp.list[i].UUID = pp.uuid =>
                    /\ sp.list[i].Name = pp.Name
                    /\ sp.list[i].AvatarID = pp.AvatarID
====
